---- MODULE Spec2Model ----
(***************************************************************************)
(* State-machine model of the CSV pipeline of exceljs:                     *)
(*   - LineBuffer      (src/lib/csv/line-buffer.js)                        *)
(*   - CSV.read / CSV.readFile (src/lib/csv/csv.js)                        *)
(* Characters are atoms; a text is a sequence of characters.               *)
(***************************************************************************)
EXTENDS Integers, Sequences, FiniteSets, TLC

VARIABLES
    \* ---- LineBuffer fields (line-buffer.js:4-37)
    buffer,      \* this.buffer: the pending, unterminated text
    queue,       \* this.queue: lines held while corked
    lineCount,   \* this.lineCount
    corked,      \* this.corked
    paused,      \* this._paused
    options,     \* the constructor's options that the data path reads
    \* ---- what the LineBuffer's callers and listeners observe
    emitted,     \* every this.emit(...) and end-callback invocation, in order
    progress,    \* the arguments handed to options.progressCallback, in order
    ret,         \* what the last call returned: "true", "false", "undefined"
    call,        \* the last call made on the LineBuffer
    nCalls,      \* number of calls made so far
    nText,       \* number of characters handed to write so far
    \* ---- history of the calls (observations, no effect on the LineBuffer)
    accepted,    \* concatenation of the chunks written while not paused
    dropped,     \* concatenation of the chunks written while paused
    used,        \* the names of the methods called so far
    corkText,    \* <<t>>: corked by cork() and only written since; t is the
                 \* text pending at cork() followed by the chunks written
    inputLines,  \* the lines of the input in input order: each line completed
                 \* by a write, and each fragment terminated by end()
    plan,        \* the caller: free (any call, up to MaxCalls calls) or the
                 \* method names it still calls, in order
    \* ---- CSV.read / CSV.readFile (csv.js:32-74)
    rd,          \* the state of one readFile/read call and its streams
    \* ---- CSV.write (csv.js:108-132)
    wr,          \* the state of one write call and its streams
    \* ---- CSV.streamFile (csv.js:172-195)
    sf,          \* the state of one streamFile call
    \* ---- CSV.defaultMap (csv.js:77-105)
    mp,          \* one application of the mapper: its arguments and result
    \* ---- StreamConverter (stream-converter.js:9-135)
    sc           \* one converter, its inner stream and the writes made on it

lbVars == <<buffer, queue, lineCount, corked, paused, options, emitted,
            progress, ret, call, nCalls, nText, accepted, dropped, used,
            corkText, inputLines, plan>>

vars == <<buffer, queue, lineCount, corked, paused, options, emitted,
          progress, ret, call, nCalls, nText, accepted, dropped, used,
          corkText, inputLines, plan, rd, wr, sf, mp, sc>>

\* a component no call has been made on
Idle == [pc |-> "idle"]

----------------------------------------------------------------------------
(* Bounds of the model *)

\* calls made on one LineBuffer
MaxCalls == 4

\* characters handed to write over the life of one LineBuffer
MaxText == 3

\* records in the source of one read
MaxRecords == 2

\* fields in one record
MaxFields == 2

\* rows in the source of one streamFile
MaxRows == 2500

\* write calls made on one StreamConverter
MaxWrites == 3

\* bytes in one chunk handed to StreamConverter.write
MaxChunk == 3

----------------------------------------------------------------------------
(* Characters and texts *)

CR == "CR"
LF == "LF"

\* an ordinary character, carriage return, line feed
Alphabet == {"a", CR, LF}

\* the character the modelled options.transform puts in front of a line
Mark == "T"

RECURSIVE TextsOfLen(_)
TextsOfLen(n) ==
    IF n = 0 THEN {<<>>}
    ELSE {<<c>> \o t : c \in Alphabet, t \in TextsOfLen(n - 1)}

\* the chunks a caller may hand to write with k characters left in the bound
ChunksUpTo(k) == UNION {TextsOfLen(n) : n \in 0..k}

Front(s) == SubSeq(s, 1, Len(s) - 1)
Last(s) == s[Len(s)]

CharsOf(t) == {t[i] : i \in 1..Len(t)}

----------------------------------------------------------------------------
(* String.prototype.split with the default delimiter /\r?\n/               *)

\* a delimiter that is the two-character CR LF only
MatchAtCrLfOnly(s, q) ==
    IF s[q] = CR /\ q + 1 <= Len(s) /\ s[q + 1] = LF THEN 2 ELSE 0

\* length of the delimiter match that starts at position q of s, 0 if none
MatchAt(s, q) ==
    IF s[q] = CR /\ q + 1 <= Len(s) /\ s[q + 1] = LF THEN 2
    ELSE IF s[q] = LF THEN 1
    ELSE 0

\* p: start of the current fragment, q: scan position, acc: fragments so far
RECURSIVE SplitFrom(_, _, _, _)
SplitFrom(s, p, q, acc) ==
    IF q > Len(s) THEN Append(acc, SubSeq(s, p, Len(s)))
    ELSE LET m == MatchAt(s, q)
         IN  IF m = 0 THEN SplitFrom(s, p, q + 1, acc)
             ELSE SplitFrom(s, q + m, q + m, Append(acc, SubSeq(s, p, q - 1)))

Split(s) == SplitFrom(s, 1, 1, <<>>)

----------------------------------------------------------------------------
(* LineBuffer: signals and options *)

Line(t) == [type |-> "line", text |-> t]
Drain == [type |-> "drain", text |-> <<>>]
Done == [type |-> "done", text |-> <<>>]
Callback == [type |-> "callback", text |-> <<>>]

\* options.maxBufferSize || 1024 * 1024
DefaultMaxBufferSize == 1048576

\* The option sets a LineBuffer is constructed with. flushLineCount is <<>>
\* when the option is absent (Infinity) and <<n>> when it is n.
OptionSets ==
    { [transform |-> FALSE, maxBufferSize |-> DefaultMaxBufferSize,
       flushLineCount |-> <<>>, progressCallback |-> FALSE],
      [transform |-> TRUE, maxBufferSize |-> DefaultMaxBufferSize,
       flushLineCount |-> <<>>, progressCallback |-> TRUE],
      [transform |-> FALSE, maxBufferSize |-> 1,
       flushLineCount |-> <<>>, progressCallback |-> FALSE],
      [transform |-> TRUE, maxBufferSize |-> DefaultMaxBufferSize,
       flushLineCount |-> <<1>>, progressCallback |-> FALSE] }

\* the modelled options.transform: marks the line it was applied to
transformFn(line) == <<Mark>> \o line

\* if (this.transformFn) line = this.transformFn(line)
Transformed(line) == IF options.transform THEN transformFn(line) ELSE line

\* this.lineCount >= this.flushLineCount
FlushLineCountReached(n) ==
    Len(options.flushLineCount) > 0 /\ n >= options.flushLineCount[1]

----------------------------------------------------------------------------
(* LineBuffer: the methods, as functions of the object's state             *)
(* s = [buffer, queue, lineCount, corked, paused, emitted, progress, ret]  *)

Self == [buffer |-> buffer, queue |-> queue, lineCount |-> lineCount,
         corked |-> corked, paused |-> paused, emitted |-> emitted,
         progress |-> progress, ret |-> ret]

\* the 'line' signals of a forEach over q that transforms and emits
RECURSIVE EmitEach(_)
EmitEach(q) ==
    IF q = <<>> THEN <<>>
    ELSE <<Line(Transformed(q[1]))>> \o EmitEach(Tail(q))

RECURSIVE Reversed(_)
Reversed(q) == IF q = <<>> THEN <<>> ELSE Append(Reversed(Tail(q)), q[1])

\* a flush that releases the queue last-in first-out
FlushLastInFirstOut(s) ==
    IF ~s.corked /\ Len(s.queue) > 0
    THEN [s EXCEPT !.emitted = @ \o EmitEach(Reversed(s.queue)), !.queue = <<>>]
    ELSE s

\* _flush()
_flush(s) ==
    IF ~s.corked /\ Len(s.queue) > 0
    THEN [s EXCEPT !.emitted = @ \o EmitEach(s.queue), !.queue = <<>>]
    ELSE s

\* a forEach body that transforms the line it queues
ProcessLineTransformsQueued(s, line) ==
    IF s.corked
    THEN [s EXCEPT !.queue = Append(@, Transformed(line))]
    ELSE LET n == s.lineCount + 1
             s1 == [s EXCEPT !.lineCount = n,
                             !.emitted = Append(@, Line(Transformed(line))),
                             !.progress = IF options.progressCallback
                                          THEN Append(@, n) ELSE @]
         IN  IF FlushLineCountReached(n) THEN _flush(s1) ELSE s1

\* the body of the forEach of write, for one line
ProcessLine(s, line) ==
    IF s.corked
    THEN [s EXCEPT !.queue = Append(@, line)]
    ELSE LET n == s.lineCount + 1
             s1 == [s EXCEPT !.lineCount = n,
                             !.emitted = Append(@, Line(Transformed(line))),
                             !.progress = IF options.progressCallback
                                          THEN Append(@, n) ELSE @]
         IN  IF FlushLineCountReached(n) THEN _flush(s1) ELSE s1

RECURSIVE ProcessLines(_, _)
ProcessLines(s, lines) ==
    IF lines = <<>> THEN s
    ELSE ProcessLines(ProcessLine(s, lines[1]), Tail(lines))

\* a write that forgets the pending text
AppendedForgetsPending(buf, chunk) == chunk

\* this.buffer += chunk
Appended(buf, chunk) == buf \o chunk

\* write(chunk) once past the paused test
WriteCore(s, chunk) ==
    LET lines == Split(Appended(s.buffer, chunk))
        s1 == ProcessLines([s EXCEPT !.buffer = Last(lines)], Front(lines))
        s2 == IF Len(s1.buffer) > options.maxBufferSize THEN _flush(s1) ELSE s1
    IN  [s2 EXCEPT !.ret = IF s2.corked THEN "false" ELSE "true"]

\* a write that does not test _paused
WriteIgnoresPaused(s, chunk) == WriteCore(s, chunk)

\* write(chunk)
write(s, chunk) ==
    IF s.paused THEN [s EXCEPT !.ret = "false"]
    ELSE WriteCore(s, chunk)

\* cork()
cork(s) == [s EXCEPT !.corked = TRUE, !.ret = "undefined"]

\* an uncork() that releases the cork without flushing the queue
UncorkWithoutFlush(s) ==
    [s EXCEPT !.corked = FALSE, !.emitted = Append(@, Drain),
              !.ret = "undefined"]

\* uncork()
uncork(s) ==
    LET s1 == _flush([s EXCEPT !.corked = FALSE])
    IN  [s1 EXCEPT !.emitted = Append(@, Drain), !.ret = "undefined"]

\* an end() that transforms the final fragment like any other line
EndLineTransformed(buf) == Line(Transformed(buf))

\* the line end() emits for a non-empty buffer
EndLine(buf) == Line(buf)

\* end(callback); cb: whether a callback was passed
end(s, cb) ==
    LET s1 == IF s.buffer # <<>>
              THEN [s EXCEPT !.emitted = Append(@, EndLine(s.buffer)),
                             !.buffer = <<>>]
              ELSE s
        s2 == [s1 EXCEPT !.emitted = Append(@, Done)]
    IN  [s2 EXCEPT !.emitted = IF cb THEN Append(@, Callback) ELSE @,
                   !.ret = "undefined"]

\* pause()
pause(s) == [s EXCEPT !.paused = TRUE, !.ret = "undefined"]

\* resume()
resume(s) ==
    LET s1 == [s EXCEPT !.paused = FALSE]
        s2 == IF s1.buffer # <<>> THEN write(s1, s1.buffer) ELSE s1
    IN  [_flush(s2) EXCEPT !.ret = "undefined"]

----------------------------------------------------------------------------
(* LineBuffer: one action per call made on the object *)

\* the object's fields after a method has run
Becomes(s) ==
    /\ buffer' = s.buffer
    /\ queue' = s.queue
    /\ lineCount' = s.lineCount
    /\ corked' = s.corked
    /\ paused' = s.paused
    /\ emitted' = s.emitted
    /\ progress' = s.progress
    /\ ret' = s.ret

Called(op, chunk, cb) ==
    /\ IF plan.free THEN nCalls < MaxCalls
       ELSE plan.todo # <<>> /\ Head(plan.todo) = op
    /\ plan' = IF plan.free THEN plan ELSE [plan EXCEPT !.todo = Tail(@)]
    /\ nCalls' = nCalls + 1
    /\ call' = [op |-> op, chunk |-> chunk, cb |-> cb]
    /\ used' = used \cup {op}
    /\ UNCHANGED <<options, rd, wr, sf, mp, sc>>

\* a caller that makes any calls
AnyCalls == [free |-> TRUE, todo |-> <<>>]

\* the caller of the pause/resume scenario
PauseResumeCalls ==
    [free |-> FALSE,
     todo |-> <<"write", "pause", "write", "resume", "write", "end">>]

\* new LineBuffer(options)
InitLineBuffer ==
    /\ buffer = <<>>
    /\ queue = <<>>
    /\ lineCount = 0
    /\ corked = FALSE
    /\ paused = FALSE
    /\ options \in OptionSets
    /\ emitted = <<>>
    /\ progress = <<>>
    /\ ret = "undefined"
    /\ call = [op |-> "new", chunk |-> <<>>, cb |-> FALSE]
    /\ nCalls = 0
    /\ nText = 0
    /\ accepted = <<>>
    /\ dropped = <<>>
    /\ used = {}
    /\ corkText = <<>>
    /\ inputLines = <<>>

Write ==
    \E chunk \in ChunksUpTo(MaxText - nText) :
        /\ Called("write", chunk, FALSE)
        /\ Becomes(write(Self, chunk))
        /\ nText' = nText + Len(chunk)
        /\ accepted' = IF paused THEN accepted ELSE accepted \o chunk
        /\ dropped' = IF paused THEN dropped \o chunk ELSE dropped
        /\ corkText' = IF corkText # <<>> /\ ~paused
                       THEN <<corkText[1] \o chunk>> ELSE corkText
        /\ inputLines' = IF paused THEN inputLines
                         ELSE inputLines \o Front(Split(buffer \o chunk))

Cork ==
    /\ Called("cork", <<>>, FALSE)
    /\ Becomes(cork(Self))
    /\ corkText' = IF corked THEN corkText ELSE <<buffer>>
    /\ UNCHANGED <<nText, accepted, dropped, inputLines>>

Uncork ==
    /\ Called("uncork", <<>>, FALSE)
    /\ Becomes(uncork(Self))
    /\ corkText' = <<>>
    /\ UNCHANGED <<nText, accepted, dropped, inputLines>>

End ==
    \E cb \in BOOLEAN :
        /\ Called("end", <<>>, cb)
        /\ Becomes(end(Self, cb))
        /\ corkText' = <<>>
        /\ inputLines' = IF buffer # <<>> THEN Append(inputLines, buffer)
                         ELSE inputLines
        /\ UNCHANGED <<nText, accepted, dropped>>

Pause ==
    /\ Called("pause", <<>>, FALSE)
    /\ Becomes(pause(Self))
    /\ corkText' = <<>>
    /\ UNCHANGED <<nText, accepted, dropped, inputLines>>

Resume ==
    /\ Called("resume", <<>>, FALSE)
    /\ Becomes(resume(Self))
    /\ corkText' = <<>>
    /\ UNCHANGED <<nText, accepted, dropped, inputLines>>

----------------------------------------------------------------------------
(* CSV: the value mapper (csv.js:13-23, 77-105)                            *)
(* A Scalar is [kind, val]; val is the text that identifies the value.     *)

Null == [kind |-> "null", val |-> ""]
Num(n) == [kind |-> "number", val |-> n]
Bool(b) == [kind |-> "boolean", val |-> b]
ErrorValue(code) == [kind |-> "error", val |-> code]
DateValue(instant) == [kind |-> "date", val |-> instant]
Str(t) == [kind |-> "string", val |-> t]

\* the field texts the modelled sources hold
FieldTokens == {"", "42", "hello", "true", "#N/A", "2024-01-15"}

\* the default options.dateFormats of read
DefaultDateFormats ==
    <<"YYYY-MM-DD[T]HH:mm:ssZ", "YYYY-MM-DD[T]HH:mm:ss", "MM-DD-YYYY",
      "YYYY-MM-DD">>

\* the field texts the mapper is applied to
Tokens ==
    FieldTokens \cup
    {"3.14", "12abc", "2024", "0", "1", " ", "Infinity", "-Infinity",
     "false", "TRUE", "#REF!", "#NAME?", "#DIV/0!", "#NULL!", "#VALUE!",
     "#NUM!", "#n/a", "01-02-2024", "15-01-2024", "2024-01-15T10:00:00",
     "1705276800000", "constructor", "toString", "__proto__",
     "[object Object]"}

\* Number(datum) for a string, as the numeral of the result, on Tokens:
\* blank strings are 0, "Infinity" and "-Infinity" are the infinities
Number(datum) ==
    CASE datum \in {"", " "} -> "0"
      [] datum \in {"42", "3.14", "2024", "0", "1", "1705276800000"} -> datum
      [] datum \in {"Infinity", "-Infinity"} -> datum
      [] OTHER -> "NaN"

\* dayjs(datum, format, true): <<instant>> when valid, <<>> when not
StrictParse(datum, format) ==
    CASE datum = "2024-01-15" /\ format = "YYYY-MM-DD" ->
            <<"2024-01-15T00:00:00">>
      [] datum = "2024-01-15T10:00:00" /\ format = "YYYY-MM-DD[T]HH:mm:ss" ->
            <<"2024-01-15T10:00:00">>
      [] datum = "01-02-2024" /\ format = "MM-DD-YYYY" ->
            <<"2024-01-02T00:00:00">>
      [] datum = "01-02-2024" /\ format = "DD-MM-YYYY" ->
            <<"2024-02-01T00:00:00">>
      [] datum = "15-01-2024" /\ format = "DD-MM-YYYY" ->
            <<"2024-01-15T00:00:00">>
      [] datum = "2024" /\ format = "YYYY" ->
            <<"2024-01-01T00:00:00">>
      [] OTHER -> <<>>

\* dateFormats.reduce(...): the first format that validates decides
RECURSIVE FirstValidDate(_, _)
FirstValidDate(datum, formats) ==
    IF formats = <<>> THEN <<>>
    ELSE IF StrictParse(datum, formats[1]) # <<>>
         THEN StrictParse(datum, formats[1])
         ELSE FirstValidDate(datum, Tail(formats))

SpecialValues ==
    [x \in {"true", "false", "#N/A", "#REF!", "#NAME?", "#DIV/0!", "#NULL!",
            "#VALUE!", "#NUM!"} |->
        IF x \in {"true", "false"} THEN Bool(x) ELSE ErrorValue(x)]

\* the members every object literal inherits from Object.prototype
ObjectPrototypeMembers ==
    {"constructor", "toString", "toLocaleString", "valueOf", "hasOwnProperty",
     "isPrototypeOf", "propertyIsEnumerable", "__proto__",
     "__defineGetter__", "__defineSetter__", "__lookupGetter__",
     "__lookupSetter__"}

\* the member of Object.prototype a lookup by that name yields
Inherited(name) == [kind |-> "inherited", val |-> name]

\* SpecialValues[datum]: <<value>>, or <<>> when undefined
Lookup(datum) ==
    IF datum \in DOMAIN SpecialValues THEN <<SpecialValues[datum]>>
    ELSE IF datum \in ObjectPrototypeMembers THEN <<Inherited(datum)>>
    ELSE <<>>

defaultMap(dateFormats, datum) ==
    IF datum = "" THEN Null
    ELSE IF Number(datum) # "NaN" /\ Number(datum) # "Infinity"
         THEN Num(Number(datum))
    ELSE IF FirstValidDate(datum, dateFormats) # <<>>
         THEN DateValue(FirstValidDate(datum, dateFormats)[1])
    ELSE IF Lookup(datum) # <<>> THEN Lookup(datum)[1]
    ELSE Str(datum)

\* data.map(map)
MapRow(data) == [i \in 1..Len(data) |-> defaultMap(DefaultDateFormats, data[i])]

RECURSIVE MapRows(_)
MapRows(records) ==
    IF records = <<>> THEN <<>>
    ELSE <<MapRow(records[1])>> \o MapRows(Tail(records))

----------------------------------------------------------------------------
(* CSV.read and CSV.readFile (csv.js:32-74)                                *)
(* rd.via        the method the caller called: "read" or "readFile"        *)
(* rd.pc         idle | reading | done: where that call is                 *)
(* rd.exists     whether the file is there                                 *)
(* rd.sheetName  options.sheetName                                         *)
(* rd.input      the records the source has not delivered yet              *)
(* rd.src        the source stream: none | flowing | ended | errored |     *)
(*               unpiped (the parser failed and left the pipe)             *)
(* rd.closed     whether stream.close() was called on the source           *)
(* rd.worksheets the Map of read: sheet key -> rows                        *)
(* rd.promise    the promise of read: none | pending | resolved | rejected *)
(* rd.error      what the promise of read was rejected with                *)
(* rd.file       the promise of readFile, likewise                         *)
(* rd.fileError  what the promise of readFile was rejected with            *)

\* the records the modelled sources hold
Fields == UNION {[1..n -> {"", "42", "hello"}] : n \in 1..MaxFields}
Sources == UNION {[1..n -> Fields] : n \in 0..MaxRecords}

SheetNames == {"Sheet1", "undefined"}

\* new Map()
EmptyMap == <<>>

\* worksheets.has(key)
Has(m, key) == key \in DOMAIN m

\* worksheets.set(key, value)
MapSet(m, key, value) ==
    [k \in DOMAIN m \cup {key} |-> IF k = key THEN value ELSE m[k]]

\* the 'data' handler of read
OnData(m, key, data) ==
    LET m1 == IF ~Has(m, key) THEN MapSet(m, key, <<>>) ELSE m
    IN  MapSet(m1, key, Append(m1[key], MapRow(data)))

InitIdleRead == rd = Idle

InitRead ==
    \E via \in {"read", "readFile"}, exists \in BOOLEAN,
       sheetName \in SheetNames, input \in Sources :
        rd = [via |-> via, pc |-> "idle", exists |-> exists,
              sheetName |-> sheetName, input |-> input, all |-> input,
              src |-> "none", closed |-> FALSE, worksheets |-> EmptyMap,
              promise |-> "none", error |-> "", file |-> "none",
              fileError |-> ""]

\* read(stream, options): the promise is created and the source piped into
\* the parser
read(r) == [r EXCEPT !.promise = "pending", !.src = "flowing",
                     !.worksheets = EmptyMap]

\* the caller calls read with an open stream
ReadCall ==
    /\ rd.pc = "idle"
    /\ rd.via = "read"
    /\ rd' = [read(rd) EXCEPT !.pc = "reading"]
    /\ UNCHANGED <<lbVars, wr, sf, mp, sc>>

\* readFile up to its await of read
readFile(r) ==
    IF ~r.exists
    THEN [r EXCEPT !.pc = "done", !.file = "rejected",
                   !.fileError = "File not found"]
    ELSE [read(r) EXCEPT !.pc = "reading", !.file = "pending"]

ReadFileCall ==
    /\ rd.pc = "idle"
    /\ rd.via = "readFile"
    /\ rd' = readFile(rd)
    /\ UNCHANGED <<lbVars, wr, sf, mp, sc>>

\* the source delivers a record: the parser signals 'data'
SourceData ==
    /\ rd.pc = "reading"
    /\ rd.src = "flowing"
    /\ rd.input # <<>>
    /\ rd' = [rd EXCEPT !.input = Tail(@),
                        !.worksheets = OnData(@, rd.sheetName, Head(rd.input))]
    /\ UNCHANGED <<lbVars, wr, sf, mp, sc>>

\* the source signals end-of-stream: pipe ends the parser, whose 'end'
\* handler resolves the promise
SourceEnd ==
    /\ rd.pc = "reading"
    /\ rd.src = "flowing"
    /\ rd.input = <<>>
    /\ rd' = [rd EXCEPT !.src = "ended", !.promise = "resolved"]
    /\ UNCHANGED <<lbVars, wr, sf, mp, sc>>

\* the source stream signals 'error' before end-of-stream: pipe forwards no
\* error to the parser, and read listens for 'error' on the parser alone, so
\* no handler of read runs
SourceError ==
    /\ rd.pc = "reading"
    /\ rd.src = "flowing"
    /\ rd' = [rd EXCEPT !.src = "errored"]
    /\ UNCHANGED <<lbVars, wr, sf, mp, sc>>

\* the parser signals 'error' (a malformed record): .on('error', reject)
ParseError ==
    /\ rd.pc = "reading"
    /\ rd.src = "flowing"
    /\ rd.input # <<>>
    /\ rd' = [rd EXCEPT !.src = "unpiped", !.promise = "rejected",
                        !.error = "ParseError"]
    /\ UNCHANGED <<lbVars, wr, sf, mp, sc>>

\* readFile after its await of read
ReadFileContinue ==
    /\ rd.pc = "reading"
    /\ rd.via = "readFile"
    /\ rd.promise \in {"resolved", "rejected"}
    /\ rd' = IF rd.promise = "resolved"
             THEN [rd EXCEPT !.pc = "done", !.closed = TRUE,
                             !.file = "resolved"]
             ELSE [rd EXCEPT !.pc = "done", !.file = "rejected",
                             !.fileError = rd.error]
    /\ UNCHANGED <<lbVars, wr, sf, mp, sc>>

NextRead ==
    \/ ReadCall
    \/ ReadFileCall
    \/ SourceData
    \/ SourceEnd
    \/ SourceError
    \/ ParseError
    \/ ReadFileContinue

\* the LineBuffer takes no part in a read
InitReader ==
    /\ InitLineBuffer
    /\ options.maxBufferSize = DefaultMaxBufferSize
    /\ ~options.transform
    /\ plan = AnyCalls
    /\ InitRead
    /\ wr = Idle
    /\ sf = Idle
    /\ mp = Idle
    /\ sc = Idle

SpecRead == InitReader /\ [][NextRead]_vars

\* the other components take no part in the calls on a LineBuffer
InitIdleCsv ==
    InitIdleRead /\ wr = Idle /\ sf = Idle /\ mp = Idle /\ sc = Idle

Init == InitLineBuffer /\ plan = AnyCalls /\ InitIdleCsv

Next == Write \/ Cork \/ Uncork \/ End \/ Pause \/ Resume

Spec == Init /\ [][Next]_vars

\* write(A); pause(); write(B); resume(); write(C); end()
InitPauseResume == InitLineBuffer /\ plan = PauseResumeCalls /\ InitIdleCsv

NextPauseResume == Write \/ Pause \/ Resume \/ End

SpecPauseResume == InitPauseResume /\ [][NextPauseResume]_vars

----------------------------------------------------------------------------
(* CSV.write (csv.js:108-132)                                              *)
(* wr.pc         idle | writing: where the call is                         *)
(* wr.rows       the workbook's rows, sheet after sheet; row.values holds  *)
(*               an unused slot in front of the cells                      *)
(* wr.dateFormat options.dateFormat                                        *)
(* wr.queue      the mapped records the formatter has not serialized yet   *)
(* wr.out        the records the destination has received, as field texts  *)
(* wr.fmt        the formatter: open | ended (end() called) | errored      *)
(* wr.dst        the destination stream: open | finished | errored         *)
(* wr.promise    the promise of write: none | pending | resolved | rejected*)
(* wr.error      what the promise was rejected with                        *)
(* wr.back       <<table>> once the output has been read back              *)

\* a LineBuffer that takes no part in the calls on CSV
InitLineBufferAside ==
    /\ InitLineBuffer
    /\ options.maxBufferSize = DefaultMaxBufferSize
    /\ ~options.transform
    /\ plan = AnyCalls

\* the instant of a Date as milliseconds since the epoch: date.valueOf()
EpochOf(instant) ==
    CASE instant = "2024-01-15T00:00:00" -> "1705276800000"
      [] OTHER -> "NaN"

\* Number(datum) for a cell value of any type
ToNumber(v) ==
    CASE v.kind = "null" -> "0"
      [] v.kind = "boolean" -> IF v.val = "true" THEN "1" ELSE "0"
      [] v.kind = "number" -> v.val
      [] v.kind = "date" -> EpochOf(v.val)
      [] v.kind = "string" -> Number(v.val)
      [] OTHER -> "NaN"

\* defaultMap(dateFormats)(datum) for a cell value of any type: a value that
\* is no string is never '', parses as no date and names no special value
defaultMapValue(dateFormats, v) ==
    IF v.kind = "string" THEN defaultMap(dateFormats, v.val)
    ELSE IF ToNumber(v) # "NaN" /\ ToNumber(v) # "Infinity"
         THEN Num(ToNumber(v))
    ELSE v

\* the text the formatter writes for a field
FormatField(v) ==
    CASE v.kind = "null" -> ""
      [] v.kind \in {"number", "boolean", "string"} -> v.val
      [] v.kind = "date" -> "Date(" \o v.val \o ")"
      [] OTHER -> "[object Object]"

\* row.values.slice(1)
SkipRowNumber(values) == Tail(values)

\* values.map(map), with map the default mapper of write
MapValues(dateFormat, values) ==
    [i \in 1..Len(values) |-> defaultMapValue(<<dateFormat>>, values[i])]

FormatRecord(record) == [i \in 1..Len(record) |-> FormatField(record[i])]

\* the eachSheet / eachRow loops of write
RECURSIVE WriteRows(_, _)
WriteRows(dateFormat, rows) ==
    IF rows = <<>> THEN <<>>
    ELSE <<MapValues(dateFormat, SkipRowNumber(rows[1]))>>
         \o WriteRows(dateFormat, Tail(rows))

\* the cell values the modelled workbooks hold
Cells ==
    {Null, Num("42"), Bool("true"), ErrorValue("#N/A"),
     DateValue("2024-01-15T00:00:00"), Str("hello")}

\* row.values[0], the slot in front of the cells
Undefined == [kind |-> "undefined", val |-> ""]

RowCells == UNION {[1..n -> Cells] : n \in 1..MaxFields}
RowValues == {<<Undefined>> \o cells : cells \in RowCells}
Workbooks == UNION {[1..n -> RowValues] : n \in 0..MaxRecords}

WriteDateFormats == {"YYYY-MM-DD", "MM-DD-YYYY"}

\* promise settlement: the first resolve or reject decides
Settle(promise, outcome) == IF promise = "pending" THEN outcome ELSE promise

InitWrite ==
    \E rows \in Workbooks, dateFormat \in WriteDateFormats :
        wr = [pc |-> "idle", rows |-> rows, dateFormat |-> dateFormat,
              queue |-> <<>>, out |-> <<>>, fmt |-> "open", dst |-> "open",
              promise |-> "none", error |-> "", back |-> <<>>]

\* write(stream, options): the synchronous body
WriteCall ==
    /\ wr.pc = "idle"
    /\ wr' = [wr EXCEPT !.pc = "writing", !.promise = "pending",
                        !.queue = WriteRows(wr.dateFormat, wr.rows),
                        !.fmt = "ended"]
    /\ UNCHANGED <<lbVars, rd, sf, mp, sc>>

\* the formatter serializes a record and the pipe hands it to the destination
FormatRow ==
    /\ wr.pc = "writing"
    /\ wr.fmt = "ended"
    /\ wr.dst = "open"
    /\ wr.queue # <<>>
    /\ wr' = [wr EXCEPT !.queue = Tail(@),
                        !.out = Append(@, FormatRecord(Head(wr.queue)))]
    /\ UNCHANGED <<lbVars, rd, sf, mp, sc>>

\* the formatter signals 'error': csvStream.on('error', reject)
FormatError ==
    /\ wr.pc = "writing"
    /\ wr.fmt = "ended"
    /\ wr.queue # <<>>
    /\ wr' = [wr EXCEPT !.fmt = "errored",
                        !.promise = Settle(@, "rejected"),
                        !.error = IF wr.promise = "pending" THEN "FormatError"
                                  ELSE @]
    /\ UNCHANGED <<lbVars, rd, sf, mp, sc>>

\* the formatter has ended and the destination has flushed every record: the
\* destination signals 'finish': stream.on('finish', resolve)
DestFinish ==
    /\ wr.pc = "writing"
    /\ wr.fmt = "ended"
    /\ wr.dst = "open"
    /\ wr.queue = <<>>
    /\ wr' = [wr EXCEPT !.dst = "finished", !.promise = Settle(@, "resolved")]
    /\ UNCHANGED <<lbVars, rd, sf, mp, sc>>

\* the destination signals 'error' (an I/O failure): write registers no
\* listener for it, so no handler of write runs
DestError ==
    /\ wr.pc = "writing"
    /\ wr.dst = "open"
    /\ wr' = [wr EXCEPT !.dst = "errored"]
    /\ UNCHANGED <<lbVars, rd, sf, mp, sc>>

\* the written output read back by read with dateFormats = [dateFormat]
ReadBackRow(dateFormat, data) ==
    [i \in 1..Len(data) |-> defaultMap(<<dateFormat>>, data[i])]

ReadBack ==
    /\ wr.pc = "writing"
    /\ wr.promise = "resolved"
    /\ wr.back = <<>>
    /\ wr' = [wr EXCEPT !.back =
                 <<[i \in 1..Len(wr.out) |->
                       ReadBackRow(wr.dateFormat, wr.out[i])]>>]
    /\ UNCHANGED <<lbVars, rd, sf, mp, sc>>

NextWrite ==
    \/ WriteCall
    \/ FormatRow
    \/ FormatError
    \/ DestFinish
    \/ DestError
    \/ ReadBack

InitWriter ==
    /\ InitLineBufferAside
    /\ InitWrite
    /\ rd = Idle
    /\ sf = Idle
    /\ mp = Idle
    /\ sc = Idle

SpecWrite == InitWriter /\ [][NextWrite]_vars

----------------------------------------------------------------------------
(* CSV.streamFile (csv.js:172-195)                                         *)
(* sf.pc       idle | streaming: where the call is                         *)
(* sf.n        the rows the parser has delivered; row i is the number i    *)
(* sf.rows     the array rows: the batch being filled                      *)
(* sf.batches  what processBatch was handed, call after call               *)
(* sf.src      the parser: flowing | ended | errored | crashed (an         *)
(*             exception left a listener uncaught)                         *)
(* sf.promise  the promise of streamFile: pending | resolved | rejected    *)
(* sf.failed   whether processBatch has thrown                             *)
(* sf.failedAt the number of processBatch calls when it threw              *)

\* if (rows.length >= 1000)
BatchSize == 1000

\* a threshold test that lets the batch grow one row too long
BatchFullLate(rows) == Len(rows) > BatchSize

BatchFull(rows) == Len(rows) >= BatchSize

InitStreamFile ==
    sf = [pc |-> "idle", n |-> 0, rows |-> <<>>, batches |-> <<>>,
          src |-> "flowing", promise |-> "none", failed |-> FALSE,
          failedAt |-> 0]

\* streamFile(filename, options) up to the return of its promise
StreamFileCall ==
    /\ sf.pc = "idle"
    /\ sf' = [sf EXCEPT !.pc = "streaming", !.promise = "pending"]
    /\ UNCHANGED <<lbVars, rd, wr, mp, sc>>

\* the 'data' handler, processBatch returning normally
OnRow(f, row) ==
    LET rows == Append(f.rows, row)
    IN  IF BatchFull(rows)
        THEN [f EXCEPT !.n = row, !.batches = Append(@, rows), !.rows = <<>>]
        ELSE [f EXCEPT !.n = row, !.rows = rows]

\* the parser signals 'data' with the next row
RowData ==
    /\ sf.pc = "streaming"
    /\ sf.src = "flowing"
    /\ sf.n < MaxRows
    /\ sf' = OnRow(sf, sf.n + 1)
    /\ UNCHANGED <<lbVars, rd, wr, mp, sc>>

\* the 'data' handler, processBatch throwing: rows is not reset and the
\* exception leaves the listener; the parser either catches it and signals
\* 'error' (reject) or it stays uncaught
RowDataSinkThrows ==
    /\ sf.pc = "streaming"
    /\ sf.src = "flowing"
    /\ sf.n < MaxRows
    /\ BatchFull(Append(sf.rows, sf.n + 1))
    /\ \E caught \in BOOLEAN :
          sf' = [sf EXCEPT !.n = sf.n + 1,
                           !.rows = Append(@, sf.n + 1),
                           !.batches = Append(@, Append(sf.rows, sf.n + 1)),
                           !.failed = TRUE,
                           !.failedAt = Len(sf.batches) + 1,
                           !.src = IF caught THEN "errored" ELSE "crashed",
                           !.promise = IF caught THEN "rejected" ELSE @]
    /\ UNCHANGED <<lbVars, rd, wr, mp, sc>>

\* the 'end' handler, processBatch returning normally
OnEnd(f) ==
    LET f1 == IF Len(f.rows) > 0 THEN [f EXCEPT !.batches = Append(@, f.rows)]
              ELSE f
    IN  [f1 EXCEPT !.src = "ended", !.promise = Settle(@, "resolved")]

\* the parser signals 'end'
StreamEnd ==
    /\ sf.pc = "streaming"
    /\ sf.src = "flowing"
    /\ sf' = OnEnd(sf)
    /\ UNCHANGED <<lbVars, rd, wr, mp, sc>>

\* the 'end' handler, processBatch throwing on the remaining rows: resolve()
\* is not reached and the exception leaves the listener uncaught
StreamEndSinkThrows ==
    /\ sf.pc = "streaming"
    /\ sf.src = "flowing"
    /\ Len(sf.rows) > 0
    /\ sf' = [sf EXCEPT !.batches = Append(@, sf.rows),
                        !.failed = TRUE,
                        !.failedAt = Len(sf.batches) + 1,
                        !.src = "crashed"]
    /\ UNCHANGED <<lbVars, rd, wr, mp, sc>>

\* the parser signals 'error': csvStream.on('error', reject)
StreamParseError ==
    /\ sf.pc = "streaming"
    /\ sf.src = "flowing"
    /\ sf' = [sf EXCEPT !.src = "errored", !.promise = Settle(@, "rejected")]
    /\ UNCHANGED <<lbVars, rd, wr, mp, sc>>

NextStreamFile ==
    \/ StreamFileCall
    \/ RowData
    \/ RowDataSinkThrows
    \/ StreamEnd
    \/ StreamEndSinkThrows
    \/ StreamParseError

InitStreamer ==
    /\ InitLineBufferAside
    /\ InitStreamFile
    /\ rd = Idle
    /\ wr = Idle
    /\ mp = Idle
    /\ sc = Idle

SpecStreamFile == InitStreamer /\ [][NextStreamFile]_vars

----------------------------------------------------------------------------
(* CSV.defaultMap applied to one field (csv.js:77-105)                     *)
(* mp.pc          ready | mapped                                           *)
(* mp.datum       the field text                                           *)
(* mp.dateFormats the date formats the mapper was made with                *)
(* mp.result      the mapper's result                                      *)

\* the date format lists the mapper is made with
FormatLists ==
    {DefaultDateFormats, <<"YYYY-MM-DD">>, <<"MM-DD-YYYY", "DD-MM-YYYY">>,
     <<"DD-MM-YYYY", "MM-DD-YYYY">>, <<"YYYY">>, <<>>}

InitMap ==
    \E datum \in Tokens, dateFormats \in FormatLists :
        mp = [pc |-> "ready", datum |-> datum, dateFormats |-> dateFormats,
              result |-> Null]

\* this.defaultMap(dateFormats)(datum)
MapDatum ==
    /\ mp.pc = "ready"
    /\ mp' = [mp EXCEPT !.pc = "mapped",
                        !.result = defaultMap(mp.dateFormats, mp.datum)]
    /\ UNCHANGED <<lbVars, rd, wr, sf, sc>>

NextMap == MapDatum

InitMapper ==
    /\ InitLineBufferAside
    /\ InitMap
    /\ rd = Idle
    /\ wr = Idle
    /\ sf = Idle
    /\ sc = Idle

SpecMap == InitMapper /\ [][NextMap]_vars

----------------------------------------------------------------------------
(* StreamConverter.write (stream-converter.js:9-25, 36-48, 88-135)         *)
(* sc.innerBOM, sc.outerBOM   the options; <<>> when absent (null)         *)
(* sc.innerEncoding, sc.outerEncoding, sc.detectEncoding,                  *)
(* sc.customErrorHandler      the options                                  *)
(* sc.writeStarted            this.writeStarted                            *)
(* sc.inner      the buffers handed to inner.write, in order; the inner    *)
(*               stream accepts every write and calls the callback         *)
(* sc.callbacks  how often a write callback has been called                *)
(* sc.handled    how often customErrorHandler has been called              *)
(* sc.outcome    of the last write: returned | threw                       *)
(* sc.stripped   for each write, whether the chunk was BOM-stripped        *)
(* sc.nWrites    number of write calls so far                              *)

\* the byte order marks the modelled converters are configured with
InnerBOMs == {<<>>, <<"EF", "BB", "BF">>}
OuterBOMs == {<<>>, <<"FF">>, <<"FF", "FE">>}

Encodings == {"UTF8", "UTF16", "LATIN1"}

\* validEncodings of validateEncoding
ValidEncodings ==
    {"UTF8", "UTF16", "ASCII", "BASE64", "UTF32", "ISO-8859-1", "WINDOWS-1252"}

\* a chunk of n bytes, none of them a byte of a BOM
Chunk(n) == [i \in 1..n |-> IF i % 2 = 1 THEN "61" ELSE "62"]

\* new StreamConverter(inner, options)
InitStreamConverter ==
    \E innerBOM \in InnerBOMs, outerBOM \in OuterBOMs,
       innerEncoding \in Encodings, outerEncoding \in Encodings,
       detectEncoding \in BOOLEAN, customErrorHandler \in BOOLEAN :
        sc = [pc |-> "open", innerBOM |-> innerBOM, outerBOM |-> outerBOM,
              innerEncoding |-> innerEncoding,
              outerEncoding |-> outerEncoding,
              detectEncoding |-> detectEncoding,
              customErrorHandler |-> customErrorHandler,
              writeStarted |-> FALSE, inner |-> <<>>, callbacks |-> 0,
              handled |-> 0, outcome |-> "returned", stripped |-> <<>>,
              nWrites |-> 0]

\* data.length <= this.outerBOM.length
NoLongerThanBOM(data, bom) == Len(data) <= Len(bom)

\* the bomless copy of data
Bomless(data, bom) == SubSeq(data, Len(bom) + 1, Len(data))

\* validateEncoding(encoding) throws
InvalidEncoding(encoding) == encoding \notin ValidEncodings

\* convertInwards(data) throws: jconv is declared and never assigned, so
\* jconv.convert is a TypeError as soon as the two encodings differ
ConvertInwardsThrows(c) == c.innerEncoding # c.outerEncoding

\* the try/catch around inner.write(this.convertInwards(data), ...)
WriteInner(c, data) ==
    IF ConvertInwardsThrows(c)
    THEN IF c.customErrorHandler
         THEN [c EXCEPT !.handled = @ + 1, !.outcome = "returned"]
         ELSE [c EXCEPT !.outcome = "threw"]
    ELSE [c EXCEPT !.inner = Append(@, data), !.callbacks = @ + 1,
                   !.outcome = "returned"]

\* the part of write after the writeStarted block
Convert(c, data) ==
    IF c.detectEncoding /\ ( \/ InvalidEncoding(c.outerEncoding)
                             \/ InvalidEncoding(c.innerEncoding) )
    THEN [c EXCEPT !.outcome = "threw"]
    ELSE WriteInner(c, data)

\* write(data, callback)
scWrite(c, data) ==
    LET c0 == [c EXCEPT !.nWrites = @ + 1]
    IN  IF c.writeStarted
        THEN Convert([c0 EXCEPT !.stripped = Append(@, FALSE)], data)
        ELSE LET c1 == IF c.innerBOM # <<>>
                       THEN [c0 EXCEPT !.inner = Append(@, c.innerBOM)]
                       ELSE c0
             IN  IF c.outerBOM # <<>>
                 THEN IF NoLongerThanBOM(data, c.outerBOM)
                      THEN [c1 EXCEPT !.callbacks = @ + 1,
                                      !.outcome = "returned",
                                      !.stripped = Append(@, FALSE)]
                      ELSE Convert([c1 EXCEPT !.writeStarted = TRUE,
                                              !.stripped = Append(@, TRUE)],
                                   Bomless(data, c.outerBOM))
                 ELSE Convert([c1 EXCEPT !.writeStarted = TRUE,
                                         !.stripped = Append(@, FALSE)],
                              data)

ConverterWrite ==
    /\ sc.pc = "open"
    /\ sc.nWrites < MaxWrites
    /\ \E n \in 0..MaxChunk : sc' = scWrite(sc, Chunk(n))
    /\ UNCHANGED <<lbVars, rd, wr, sf, mp>>

NextConverter == ConverterWrite

InitConverter ==
    /\ InitLineBufferAside
    /\ InitStreamConverter
    /\ rd = Idle
    /\ wr = Idle
    /\ sf = Idle
    /\ mp = Idle

SpecConverter == InitConverter /\ [][NextConverter]_vars

----------------------------------------------------------------------------
(* Properties of the LineBuffer *)

\* the texts of the 'line' signals of a log, in order
RECURSIVE LinesOf(_)
LinesOf(log) ==
    IF log = <<>> THEN <<>>
    ELSE IF log[1].type = "line" THEN <<log[1].text>> \o LinesOf(Tail(log))
    ELSE LinesOf(Tail(log))

IsPrefix(a, b) == Len(a) <= Len(b) /\ a = SubSeq(b, 1, Len(a))

\* every line feed ends one delimiter match of /\r?\n/
DelimiterCount(t) == Cardinality({i \in 1..Len(t) : t[i] = LF})

\* the signals a step added to the log
NewSignals == SubSeq(emitted', Len(emitted) + 1, Len(emitted'))

\* C1: on a LineBuffer that has only been written to, whatever the cut of the
\* written text into chunks, the 'line' signals are exactly the k lines of the
\* whole text (k its number of delimiters), in order, and the pending text is
\* the text after the last delimiter.
C1_ChunkBoundaryIndependence ==
    used \subseteq {"write"} =>
        /\ emitted = EmitEach(Front(Split(accepted)))
        /\ Len(emitted) = DelimiterCount(accepted)
        /\ buffer = Last(Split(accepted))

\* C1 witness: the last chunk starts with the line feed of a terminator whose
\* carriage return ended the text written before it.
C1_Witness ==
    /\ used = {"write"}
    /\ call.chunk # <<>>
    /\ call.chunk[1] = LF
    /\ Len(accepted) > Len(call.chunk)
    /\ accepted[Len(accepted) - Len(call.chunk)] = CR
    /\ Len(emitted) = 1

\* C2: after cork() and while only written to, no signal is emitted; the
\* uncork() that follows emits exactly the lines the writes completed, in
\* their order, then 'drain' once, and leaves the queue empty and corked false.
C2_CorkUncork ==
    [][ corkText # <<>> =>
          /\ (corkText' # <<>> => emitted' = emitted)
          /\ (call'.op = "uncork" =>
                /\ emitted' = emitted \o EmitEach(Front(Split(corkText[1])))
                                      \o <<Drain>>
                /\ queue' = <<>>
                /\ ~corked') ]_vars

\* C2 witness: cork(), writes completing two lines, uncork().
C2_Witness ==
    /\ call.op = "uncork"
    /\ used = {"cork", "write", "uncork"}
    /\ lineCount = 0
    /\ Len(emitted) = 3
    /\ emitted[1].type = "line"
    /\ emitted[2].type = "line"
    /\ emitted[1] # emitted[2]
    /\ emitted[3] = Drain

\* C3: lineCount equals the number of 'line' signals emitted since
\* construction.
C3_LineCountCountsEmitted == lineCount = Len(LinesOf(emitted))

\* C4: end(callback) emits a non-empty pending text as one 'line' signal with
\* exactly that text, then 'done', then calls the callback, and leaves pending
\* empty; with pending empty, and so when repeated at once, it emits no 'line'.
C4_EndEmitsPendingOnce ==
    [][ call'.op = "end" =>
          /\ buffer' = <<>>
          /\ NewSignals = (IF buffer # <<>> THEN <<Line(buffer)>> ELSE <<>>)
                          \o <<Done>>
                          \o (IF call'.cb THEN <<Callback>> ELSE <<>>)
          /\ (call.op = "end" => LinesOf(NewSignals) = <<>>) ]_vars

\* C4 witness: with a transform configured, end(callback) has emitted the
\* pending text "a" as it is.
C4_Witness ==
    /\ call.op = "end"
    /\ call.cb
    /\ options.transform
    /\ emitted = <<Line(<<"a">>), Done, Callback>>

\* the characters of every emitted line, of the queue and of the pending text
RECURSIVE CharsOfAll(_)
CharsOfAll(ts) ==
    IF ts = <<>> THEN {} ELSE CharsOf(ts[1]) \cup CharsOfAll(Tail(ts))

HeldChars == CharsOfAll(LinesOf(emitted)) \cup CharsOfAll(queue) \cup CharsOf(buffer)

\* C5: a write made while paused returns false, emits nothing and leaves
\* pending, queue, lineCount and corked as they were; in write(A), pause(),
\* write(B), resume(), write(C), end() every character emitted, queued or
\* pending comes from A or C (or is the transform's mark).
C5_PausedWriteDropped ==
    /\ [](HeldChars \subseteq CharsOf(accepted) \cup {Mark})
    /\ [][ (call'.op = "write" /\ paused) =>
             /\ UNCHANGED <<buffer, queue, lineCount, corked, emitted, progress>>
             /\ ret' = "false" ]_vars

\* C5 witness: the scenario has run to its end; B held the character "a",
\* which neither A nor C holds, and lines were emitted.
C5_Witness ==
    /\ ~plan.free
    /\ plan.todo = <<>>
    /\ "a" \in CharsOf(dropped)
    /\ "a" \notin CharsOf(accepted)
    /\ Len(LinesOf(emitted)) >= 2

\* C6: over write, cork, uncork and end calls (no transform configured) the
\* emitted lines are, in order, the first lines of the input: no line is
\* emitted before or instead of one that precedes it in the input.
C6_EmissionFollowsInputOrder ==
    (used \cap {"pause", "resume"} = {} /\ ~options.transform) =>
        IsPrefix(LinesOf(emitted), inputLines)

\* C7: a write that leaves pending longer than maxBufferSize, or lineCount at
\* or above flushLineCount, has emitted every queued line and returns with the
\* queue empty.
C7_TriggeredFlushEmptiesQueue ==
    [][ ( /\ call'.op = "write"
          /\ ~paused
          /\ \/ Len(buffer') > options.maxBufferSize
             \/ FlushLineCountReached(lineCount') ) =>
          queue' = <<>> ]_vars

\* C18: as long as end() has not been called, pending is the text of the
\* accepted chunks that follows their last delimiter; so a pause() followed by
\* resume() leaves pending as it was.
C18_PendingIsUnterminatedTail ==
    "end" \notin used => buffer = Last(Split(accepted))

\* C19: in every reachable state pending contains no match of the line
\* delimiter /\r?\n/, that is, no LF.
C19_PendingHoldsNoDelimiter == DelimiterCount(buffer) = 0

\* a resume() has replayed a non-empty pending text after lines were emitted
C19_Witness ==
    /\ call.op = "resume"
    /\ buffer # <<>>
    /\ CR \in CharsOf(buffer)
    /\ LinesOf(emitted) # <<>>

\* the lines a call completes: those of a write that is not dropped, and those
\* of the write by which resume() replays a non-empty pending text
CompletedBy(c) ==
    IF c.op = "write" /\ ~paused THEN Front(Split(buffer \o c.chunk))
    ELSE IF c.op = "resume" /\ buffer # <<>> THEN Front(Split(buffer \o buffer))
    ELSE <<>>

\* C20: while corked, a write (also the one resume() issues) emits nothing,
\* leaves lineCount and the progress callback alone, appends the newly
\* completed lines untransformed to the end of the queue in arrival order, and
\* returns false; a write while neither corked nor paused returns true.
C20_CorkedWriteQueues ==
    [][ /\ (corked /\ call'.op \in {"write", "resume"}) =>
              /\ emitted' = emitted
              /\ lineCount' = lineCount
              /\ progress' = progress
              /\ queue' = queue \o CompletedBy(call')
              /\ corked'
              /\ call'.op = "write" => ret' = "false"
        /\ (~corked /\ ~paused /\ call'.op = "write") => ret' = "true"
      ]_vars

\* a corked write queued two lines of a buffer that has a transform
C20_Witness ==
    /\ call.op = "write"
    /\ corked
    /\ options.transform
    /\ Len(queue) >= 2
    /\ queue[1] # <<>>
    /\ emitted = <<>>
    /\ ret = "false"

\* C21: in every state between calls a non-empty queue implies corked, and so
\* the 'line' signals of a write are exactly the lines it completes while not
\* corked (none while corked): the flushes inside write emit nothing.
C21_QueueOnlyWhileCorked ==
    /\ [](queue # <<>> => corked)
    /\ [][ call'.op = "write" =>
              NewSignals = IF corked THEN <<>>
                           ELSE EmitEach(CompletedBy(call')) ]_vars

\* after a cork/uncork round a write reached the flush threshold, not corked
C21_Witness ==
    /\ call.op = "write"
    /\ ~corked
    /\ {"cork", "uncork"} \subseteq used
    /\ FlushLineCountReached(lineCount)
    /\ Len(LinesOf(emitted)) >= 2
    /\ queue = <<>>

----------------------------------------------------------------------------
(* Properties of CSV.read and CSV.readFile *)

\* C8: read settles on every outcome of the source: once the source stream
\* has signalled an error the promise is rejected, and once it has signalled
\* end-of-stream the promise is resolved.
C8_ReadSettles ==
    /\ rd.src = "errored" => rd.promise = "rejected"
    /\ rd.src = "ended" => rd.promise = "resolved"

\* C9: a resolved read holds exactly one bucket, keyed by options.sheetName,
\* with one mapped row per record of the source, in source order.
C9_OneBucket ==
    rd.promise = "resolved" =>
        /\ DOMAIN rd.worksheets = {rd.sheetName}
        /\ rd.worksheets[rd.sheetName] = MapRows(rd.all)

\* C10: when readFile has settled, a stream it opened has been closed; when
\* the path does not exist it fails with the not-found error and opens none.
C10_ReadFileReleasesStream ==
    (rd.via = "readFile" /\ rd.file \in {"resolved", "rejected"}) =>
        IF rd.exists THEN rd.closed
        ELSE rd.src = "none" /\ rd.fileError = "File not found"

----------------------------------------------------------------------------
(* Properties of CSV.write *)

\* C11: write settles on every outcome: it is resolved only once the
\* destination has signalled 'finish' with every record written, rejected once
\* the formatter has signalled an error, and rejected once the destination
\* stream has signalled an error.
C11_WriteSettles ==
    /\ wr.pc = "writing" /\ wr.promise = "resolved" =>
          wr.dst = "finished" /\ Len(wr.out) = Len(wr.rows)
    /\ wr.pc = "writing" /\ wr.fmt = "errored" => wr.promise = "rejected"
    /\ wr.pc = "writing" /\ wr.dst = "errored" => wr.promise = "rejected"

\* the cells of a workbook's rows
RECURSIVE CellsOf(_)
CellsOf(rows) ==
    IF rows = <<>> THEN <<>>
    ELSE <<SkipRowNumber(rows[1])>> \o CellsOf(Tail(rows))

\* C17: a table written by write and read back under the same date format
\* yields, for every row and column, a Scalar of the same kind and value.
C17_RoundTrip == wr.pc = "writing" /\ wr.back # <<>> => wr.back[1] = CellsOf(wr.rows)

----------------------------------------------------------------------------
(* Properties of CSV.streamFile *)

RECURSIVE Flatten(_)
Flatten(bs) == IF bs = <<>> THEN <<>> ELSE bs[1] \o Flatten(Tail(bs))

\* the rows 1..n of the source, in source order
SourceRows(n) == [i \in 1..n |-> i]

\* ceil(n / BatchSize)
BatchesNeeded(n) == (n + BatchSize - 1) \div BatchSize

\* C12: with a sink that does not throw, no batch handed to processBatch is
\* empty, every batch handed over before end-of-stream has exactly 1000 rows
\* and with the rows still held they are the source rows in source order,
\* and once the N rows have ended the sink was called ceil(N/1000) times, the
\* last batch holding N mod 1000 rows if that is not zero.
C12_BatchDelivery ==
    (sf.pc = "streaming" /\ ~sf.failed /\ sf.src \in {"flowing", "ended"}) =>
        /\ \A i \in 1..Len(sf.batches) : Len(sf.batches[i]) > 0
        /\ \A i \in 1..Len(sf.batches) - 1 : Len(sf.batches[i]) = BatchSize
        /\ sf.src = "flowing" =>
              /\ \A i \in 1..Len(sf.batches) : Len(sf.batches[i]) = BatchSize
              /\ Flatten(sf.batches) \o sf.rows = SourceRows(sf.n)
        /\ sf.src = "ended" =>
              /\ sf.promise = "resolved"
              /\ Len(sf.batches) = BatchesNeeded(sf.n)
              /\ Flatten(sf.batches) = SourceRows(sf.n)
              /\ sf.n % BatchSize # 0 =>
                    Len(sf.batches[Len(sf.batches)]) = sf.n % BatchSize

\* C12 witness: a source of 2500 rows has ended; the sink was handed batches
\* of 1000, 1000 and 500 rows.
C12_Witness ==
    /\ sf.pc = "streaming"
    /\ sf.src = "ended"
    /\ sf.n = 2500
    /\ Len(sf.batches) = 3
    /\ Len(sf.batches[1]) = 1000
    /\ Len(sf.batches[2]) = 1000
    /\ Len(sf.batches[3]) = 500

\* C13: once processBatch has thrown, no later batch is handed over and the
\* promise of streamFile is rejected.
C13_SinkFailurePropagates ==
    (sf.pc = "streaming" /\ sf.failed) =>
        /\ Len(sf.batches) = sf.failedAt
        /\ sf.promise = "rejected"

----------------------------------------------------------------------------
(* Properties of CSV.defaultMap *)

ErrorCodes ==
    {"#N/A", "#REF!", "#NAME?", "#DIV/0!", "#NULL!", "#VALUE!", "#NUM!"}

\* the whole token parses as a finite number
IsFiniteNumber(t) == Number(t) \notin {"NaN", "Infinity", "-Infinity"}

\* the positions of the formats of fs that validate t
ValidFormats(t, fs) == {i \in 1..Len(fs) : StrictParse(t, fs[i]) # <<>>}

FirstOf(S) == CHOOSE i \in S : \A j \in S : i <= j

\* the decision table: the first applicable rule decides
Decided(t, fs) ==
    IF t = "" THEN Null
    ELSE IF IsFiniteNumber(t) THEN Num(Number(t))
    ELSE IF ValidFormats(t, fs) # {}
         THEN DateValue(StrictParse(t, fs[FirstOf(ValidFormats(t, fs))])[1])
    ELSE IF t \in {"true", "false"} THEN Bool(t)
    ELSE IF t \in ErrorCodes THEN ErrorValue(t)
    ELSE Str(t)

\* C14: for every token the mapper's result is the one the first applicable
\* rule decides, in the order empty, number, date (formats in list order),
\* 'true'/'false', error code, string.
C14_FirstMatchWins ==
    mp.pc = "mapped" => mp.result = Decided(mp.datum, mp.dateFormats)

\* C15: the mapper yields no numeric Scalar that is NaN or infinite; the
\* tokens 'Infinity' and '-Infinity' end as the unchanged string.
C15_NumbersAreFinite ==
    mp.pc = "mapped" =>
        /\ mp.result.kind = "number" =>
              mp.result.val \notin {"NaN", "Infinity", "-Infinity"}
        /\ mp.datum \in {"Infinity", "-Infinity"} => mp.result = Str(mp.datum)

\* C16: exactly the nine special tokens map to a boolean or an ErrorValue;
\* every other non-empty token that is no number and no date in a configured
\* format is returned as the original string.
C16_SpecialValuesClosed ==
    mp.pc = "mapped" =>
        /\ mp.result.kind \in {"boolean", "error"} <=>
              mp.datum \in {"true", "false"} \cup ErrorCodes
        /\ ( /\ mp.datum \notin {"true", "false"} \cup ErrorCodes
             /\ mp.datum # ""
             /\ Number(mp.datum) = "NaN"
             /\ ValidFormats(mp.datum, mp.dateFormats) = {} ) =>
              mp.result = Str(mp.datum)

----------------------------------------------------------------------------
(* Properties of StreamConverter.write *)

\* the positions of the inner stream's log that hold the inner BOM
BomWrites == {i \in 1..Len(sc.inner) : sc.inner[i] = sc.innerBOM}

\* C22: on a converter with an inner BOM, the inner BOM is written to the
\* inner stream at most once and before any data, also when the first chunks
\* are no longer than the outer BOM; once writeStarted is true it stays true
\* and no later chunk is BOM-stripped.
C22_InnerBomOnce ==
    /\ []( (sc.pc = "open" /\ sc.innerBOM # <<>>) =>
              /\ Cardinality(BomWrites) <= 1
              /\ BomWrites \subseteq {1} )
    /\ [][ (sc.pc = "open" /\ sc.writeStarted) =>
              /\ sc'.writeStarted
              /\ ~sc'.stripped[Len(sc'.stripped)] ]_vars

====
